---- MODULE Spec2Model ----
(***************************************************************************)
(* A model of pycall's CallFile (src/pycall/callfile.py): the record, its  *)
(* validation and serialisation, and the run() pipeline that writes a      *)
(* temporary file, changes its owner and times, and moves it next to the   *)
(* spool directory path.                                                   *)
(*                                                                         *)
(* Python values are modelled as tagged records (None, str, bool), so that *)
(* truthiness (`x or y`, `if x`) is computed as Python computes it.  A     *)
(* Python string that is used as a path is a sequence of tokens, "/" being *)
(* the separator; concatenating two strings concatenates the sequences,    *)
(* and resolving a string to a path merges the tokens between separators.  *)
(*                                                                         *)
(* Names the source uses but callfile.py does not define are resolved as   *)
(* follows, from the specification's words:                                *)
(*   Call.is_valid, Call.__str__, Action.__str__   (call.py, actions.py)   *)
(*   self._buildfile, self._writefile  -> buildfile, writefile             *)
(*   self.filename                     -> mkstemp(), stored in self.f      *)
(*   NoUserError, NoUserPermissionError, NoSpoolPermissionError,           *)
(*   NoActionDefinedError              -> error kinds of errors.py         *)
(***************************************************************************)
EXTENDS Integers, Sequences, FiniteSets, TLC

\* ----------------------------------------------------------------- bounds
MaxLines == 2      \* most directive lines a target or an action serialises to
MaxEnv   == 2      \* most changes other programs make to the spool directory

Procs == {1, 2}    \* the submissions (one record each)

\* ---------------------------------------------------------- Python values
None      == [t |-> "None"]
Str(s)    == [t |-> "str", v |-> s]
Bool(b)   == [t |-> "bool", v |-> b]
Truthy(x) == CASE x.t = "None" -> FALSE
               [] x.t = "str"  -> x.v # <<>>
               [] x.t = "bool" -> x.v
               [] OTHER        -> TRUE

\* x or y
PyOr(x, y) == IF Truthy(x) THEN x ELSE y

\* ----------------------------------------------------------------- paths
SEP == "/"

RECURSIVE Components(_)
\* The components of an absolute path string, normalised as abspath() does:
\* tokens between separators are joined into one name, empty names dropped.
Components(s) ==
  IF s = <<>> THEN <<>>
  ELSE IF Head(s) = SEP THEN Components(Tail(s))
  ELSE LET rest == Components(Tail(s))
       IN  IF Len(s) > 1 /\ s[2] # SEP
           THEN <<Head(s) \o Head(rest)>> \o Tail(rest)
           ELSE <<Head(s)>> \o rest

RECURSIVE basename(_)
\* os.path.basename: what follows the last separator.
basename(s) ==
  IF s = <<>> THEN <<>>
  ELSE IF \E i \in 1..Len(s) : s[i] = SEP
       THEN basename(Tail(s))
       ELSE s

Parent(p) == SubSeq(p, 1, Len(p) - 1)

DEFAULT_SPOOL_DIR ==
  <<SEP, "var", SEP, "spool", SEP, "asterisk", SEP, "outgoing">>

TmpDir == <<"tmp">>

\* Directories that exist throughout; a spool directory comes and goes.
StaticDirs ==
  { <<>>, TmpDir, <<"var">>, <<"var", "spool">>, <<"var", "spool", "asterisk">> }

SpoolPath == Components(DEFAULT_SPOOL_DIR)

\* ------------------------------------------------- the collaborators
TargetLines(n) == [i \in 1..n |-> "Channel: SIP/" \o ToString(i)]
ActionLines(n) == [i \in 1..n |-> "Data: " \o ToString(i)]

\* A Call (or something that is not one), with the answer of its is_valid()
\* and the lines its __str__() gives.
CallObjs ==
  { [isCall |-> FALSE, valid |-> TRUE, lines |-> TargetLines(1)],
    [isCall |-> TRUE, valid |-> FALSE, lines |-> TargetLines(1)] }
  \cup { [isCall |-> TRUE, valid |-> TRUE, lines |-> TargetLines(n)] : n \in 0..MaxLines }

\* An Action (or something that is not one), with the answer of its own
\* validation and the lines its __str__() gives.
ActionObjs ==
  { [isAction |-> FALSE, valid |-> TRUE, lines |-> ActionLines(1)],
    [isAction |-> TRUE, valid |-> FALSE, lines |-> ActionLines(1)] }
  \cup { [isAction |-> TRUE, valid |-> TRUE, lines |-> ActionLines(n)] : n \in 0..MaxLines }

CallIsValid(c)   == c.valid
CallStr(c)       == c.lines
ActionIsValid(a) == a.valid
ActionStr(a)     == a.lines

\* What a call gives back: a value, or an exception of some kind.
Return(v) == [raised |-> FALSE, value |-> v]
Raise(k)  == [raised |-> TRUE, kind |-> k]

\* ------------------------------------------------------- the file system
\* A fresh file as mkstemp() leaves it: empty, owned by the caller, times now.
NewFile == [content |-> "", owner |-> "self", times |-> "now"]

\* The account database: the names getpwnam() resolves.
Accounts == { <<"asterisk">> }

isdir(s, d) == Components(s) \in d

RECURSIVE JoinNL(_)
\* '\n'.join(lines)
JoinNL(lines) ==
  IF lines = <<>> THEN ""
  ELSE IF Len(lines) = 1 THEN lines[1]
  ELSE lines[1] \o "\n" \o JoinNL(Tail(lines))

\* ------------------------------------------------------------------ state
VARIABLES
  rec,      \* rec[p]: the CallFile object of submission p (None before __init__)
  pc,       \* pc[p]: where submission p is
  dirs,     \* the directories that exist
  files,    \* files[path]: the files that exist, by path
  nextTmp,  \* the number mkstemp() gives its next file
  env,      \* how often other programs changed the spool directory
  ret,      \* ret[p]: the last is_valid/buildfile/contents/spool call and its outcome
  timeArg,  \* timeArg[p]: the time argument of run()
  fname,    \* fname[p]: run()'s local fname
  steps,    \* steps[p]: the system calls run() made so far, in order
  started,  \* started[p]: the file system run() was called in (None before)
  result    \* result[p]: what run() gave its caller

vars == <<rec, pc, dirs, files, nextTmp, env, ret, timeArg, fname, steps, started, result>>

\* ------------------------------------------------------------ __init__
\* __init__ that keeps the spool_dir it is given, unset or not.
CallFile_NoDefault(call, action, archive, user, spool_dir) ==
  [ call      |-> call,
    action    |-> action,
    archive   |-> archive,
    user      |-> user,
    spool_dir |-> spool_dir,
    f         |-> None ]

CallFile(call, action, archive, user, spool_dir) ==
  [ call      |-> call,
    action    |-> action,
    archive   |-> archive,
    user      |-> user,
    spool_dir |-> PyOr(spool_dir, Str(DEFAULT_SPOOL_DIR)),
    f         |-> None ]

ArchiveArgs == { None, Bool(TRUE), Bool(FALSE) }
UserArgs    == { None, Str(<<"asterisk">>), Str(<<"ghost">>) }
SpoolArgs   == { None, Str(<<>>), Str(DEFAULT_SPOOL_DIR \o <<SEP>>), Str(<<SEP, "nodir">>) }

\* ------------------------------------------------------------ is_valid
is_valid(r, d) ==
  IF ~r.call.isCall THEN FALSE
  ELSE IF ~r.action.isAction THEN FALSE
  ELSE IF Truthy(r.spool_dir) /\ ~isdir(r.spool_dir.v, d) THEN FALSE
  ELSE IF ~CallIsValid(r.call) THEN FALSE
  ELSE TRUE

\* ------------------------------------------------------------ buildfile
ArchiveLine == "Archive: yes"

\* buildfile with the action's lines put first.
buildfile_ActionFirst(r, d) ==
  IF ~is_valid(r, d) THEN Raise("ValidationError")
  ELSE Return(ActionStr(r.action) \o CallStr(r.call)
              \o (IF Truthy(r.archive) THEN <<ArchiveLine>> ELSE <<>>))

buildfile(r, d) ==
  IF ~is_valid(r, d) THEN Raise("ValidationError")
  ELSE Return(CallStr(r.call) \o ActionStr(r.action)
              \o (IF Truthy(r.archive) THEN <<ArchiveLine>> ELSE <<>>))

\* ------------------------------------------------------------ contents
contents(r, d) ==
  LET b == buildfile(r, d)
  IN  IF b.raised THEN b ELSE Return(JoinNL(b.value))

\* --------------------------------------------------------------- initially
Init ==
  /\ rec = [p \in Procs |-> None]
  /\ pc = [p \in Procs |-> "new"]
  /\ dirs = StaticDirs \cup {SpoolPath}
  /\ files = [x \in {} |-> NewFile]
  /\ nextTmp = 1
  /\ env = 0
  /\ ret = [p \in Procs |-> None]
  /\ timeArg = [p \in Procs |-> None]
  /\ fname = [p \in Procs |-> None]
  /\ steps = [p \in Procs |-> <<>>]
  /\ started = [p \in Procs |-> None]
  /\ result = [p \in Procs |-> None]

\* A call and its outcome, with the file system it was made in; for __init__
\* the value kept is the spool_dir argument.
Called(op, out) == [op |-> op, out |-> out, dirs |-> dirs, files |-> files]

\* cf = CallFile(call, action, archive, user, spool_dir)
Construct(p, call, action, archive, user, spool_dir) ==
  /\ pc[p] = "new"
  /\ rec' = [rec EXCEPT ![p] = CallFile(call, action, archive, user, spool_dir)]
  /\ pc' = [pc EXCEPT ![p] = "idle"]
  /\ ret' = [ret EXCEPT ![p] = Called("__init__", Return(spool_dir))]
  /\ UNCHANGED <<dirs, files, nextTmp, env, timeArg, fname, steps, result, started>>

\* is_valid() that makes the spool directory when it is missing.
DoIsValid_MakeDir(p) ==
  /\ pc[p] = "idle"
  /\ ret' = [ret EXCEPT ![p] = Called("is_valid", Return(is_valid(rec[p], dirs)))]
  /\ dirs' = dirs \cup {Components(rec[p].spool_dir.v)}
  /\ UNCHANGED <<rec, pc, files, nextTmp, env, timeArg, fname, steps, result, started>>

\* cf.is_valid()
DoIsValid(p) ==
  /\ pc[p] = "idle"
  /\ ret' = [ret EXCEPT ![p] = Called("is_valid", Return(is_valid(rec[p], dirs)))]
  /\ UNCHANGED <<rec, pc, dirs, files, nextTmp, env, timeArg, fname, steps, result, started>>

\* cf.buildfile()
DoBuildfile(p) ==
  /\ pc[p] = "idle"
  /\ ret' = [ret EXCEPT ![p] = Called("buildfile", buildfile(rec[p], dirs))]
  /\ UNCHANGED <<rec, pc, dirs, files, nextTmp, env, timeArg, fname, steps, result, started>>

\* cf.contents
DoContents(p) ==
  /\ pc[p] = "idle"
  /\ ret' = [ret EXCEPT ![p] = Called("contents", contents(rec[p], dirs))]
  /\ UNCHANGED <<rec, pc, dirs, files, nextTmp, env, timeArg, fname, steps, result, started>>

\* spool() that does nothing.
spool_Silent(r) == Return(None)

\* spool, lines 114-117.
spool(r) == Raise("NoActionDefinedError")

\* cf.spool(), before run() or after it
DoSpool(p) ==
  /\ pc[p] \in {"idle", "done"}
  /\ ret' = [ret EXCEPT ![p] = Called("spool", spool(rec[p]))]
  /\ UNCHANGED <<rec, pc, dirs, files, nextTmp, env, timeArg, fname, steps, result, started>>

\* ------------------------------------------------------------------- run
Sys(op, ok) == [op |-> op, ok |-> ok]

\* The time argument: absent, a datetime mktime() converts, or one it does not.
GoodTime == [t |-> "datetime", fits |-> TRUE]
BadTime  == [t |-> "datetime", fits |-> FALSE]
TimeArgs == { None, GoodTime, BadTime }

Finish(p, out) ==
  /\ result' = [result EXCEPT ![p] = out]
  /\ pc' = [pc EXCEPT ![p] = "done"]

\* run(time), line 128: the argument self._buildfile() is evaluated first.
Run(p, time) ==
  /\ pc[p] = "idle"
  /\ timeArg' = [timeArg EXCEPT ![p] = time]
  /\ ret' = [ret EXCEPT ![p] = None]
  /\ started' = [started EXCEPT ![p] = [dirs |-> dirs, files |-> files]]
  /\ IF buildfile(rec[p], dirs).raised
     THEN Finish(p, buildfile(rec[p], dirs))
     ELSE /\ pc' = [pc EXCEPT ![p] = "writefile"]
          /\ UNCHANGED result
  /\ UNCHANGED <<rec, dirs, files, nextTmp, env, fname, steps>>

TmpName(n) == "tmp" \o ToString(n)

\* mkstemp(): a new empty file of a name not used before, in the temporary
\* directory; gives its absolute path.
Mkstemp(n) == <<SEP>> \o TmpDir \o <<SEP, TmpName(n)>>

\* writefile, lines 105-108: self.f is looked up, and made when it is missing.
WriteOpen(p) ==
  /\ pc[p] = "writefile"
  /\ IF rec[p].f = None
     THEN /\ rec' = [rec EXCEPT ![p].f = Str(Mkstemp(nextTmp))]
          /\ files' = (Components(Mkstemp(nextTmp)) :> NewFile) @@ files
          /\ nextTmp' = nextTmp + 1
          /\ steps' = [steps EXCEPT ![p] = Append(@, Sys("mkstemp", TRUE))]
     ELSE UNCHANGED <<rec, files, nextTmp, steps>>
  /\ pc' = [pc EXCEPT ![p] = "write"]
  /\ UNCHANGED <<dirs, env, ret, timeArg, fname, result, started>>

\* writefile, lines 110-112: the file is opened for writing, self.contents is
\* computed (validating again) and written, the file is closed.
WriteBody(p) ==
  /\ pc[p] = "write"
  /\ LET c == contents(rec[p], dirs)
         tmp == Components(rec[p].f.v)
     IN  IF c.raised
         THEN /\ Finish(p, c)
              /\ UNCHANGED <<files, fname, steps>>
         ELSE /\ files' = [files EXCEPT ![tmp].content = c.value]
              /\ fname' = [fname EXCEPT ![p] = rec[p].f]
              /\ steps' = [steps EXCEPT ![p] = Append(@, Sys("write", TRUE))]
              /\ pc' = [pc EXCEPT ![p] = "chown"]
              /\ UNCHANGED result
  /\ UNCHANGED <<rec, dirs, nextTmp, env, ret, timeArg, started>>

\* Lines 136-139: chown, any failure of which raises NoUserPermissionError.
InnerTry(chownOk) ==
  IF chownOk THEN Return(TRUE) ELSE Raise("NoUserPermissionError")

\* The ownership step with its failures swallowed.
OuterTry_Pass(user, chownOk) == Return(TRUE)

\* Lines 131-141: getpwnam and the inner try, any exception of which, the
\* inner try's included, is caught and replaced by NoUserError.
OuterTry(user, chownOk) ==
  IF user \notin Accounts THEN Raise("NoUserError")
  ELSE IF InnerTry(chownOk).raised THEN Raise("NoUserError")
  ELSE Return(TRUE)

\* The ownership step that looks the user up even when there is none.
SetOwner_Lookup(p) ==
  /\ pc[p] = "chown"
  /\ IF ~Truthy(rec[p].user)
     THEN /\ steps' = [steps EXCEPT ![p] = Append(@, Sys("getpwnam", FALSE))]
          /\ Finish(p, Raise("NoUserError"))
          /\ UNCHANGED files
     ELSE \E chownOk \in BOOLEAN :
          LET user == rec[p].user.v
              known == user \in Accounts
              out == OuterTry(user, chownOk)
              tmp == Components(fname[p].v)
          IN  /\ steps' = [steps EXCEPT ![p] =
                   @ \o <<Sys("getpwnam", known)>>
                     \o (IF known THEN <<Sys("chown", chownOk)>> ELSE <<>>)]
              /\ files' = IF known /\ chownOk
                          THEN [files EXCEPT ![tmp].owner = user[1]]
                          ELSE files
              /\ IF out.raised
                 THEN Finish(p, out)
                 ELSE /\ pc' = [pc EXCEPT ![p] = "utime"]
                      /\ UNCHANGED result
  /\ UNCHANGED <<rec, dirs, nextTmp, env, ret, timeArg, fname, started>>

\* run, lines 130-141.
SetOwner(p) ==
  /\ pc[p] = "chown"
  /\ IF ~Truthy(rec[p].user)
     THEN /\ pc' = [pc EXCEPT ![p] = "utime"]
          /\ UNCHANGED <<files, steps, result>>
     ELSE \E chownOk \in BOOLEAN :
          LET user == rec[p].user.v
              known == user \in Accounts
              out == OuterTry(user, chownOk)
              tmp == Components(fname[p].v)
          IN  /\ steps' = [steps EXCEPT ![p] =
                   @ \o <<Sys("getpwnam", known)>>
                     \o (IF known THEN <<Sys("chown", chownOk)>> ELSE <<>>)]
              /\ files' = IF known /\ chownOk
                          THEN [files EXCEPT ![tmp].owner = user[1]]
                          ELSE files
              /\ IF out.raised
                 THEN Finish(p, out)
                 ELSE /\ pc' = [pc EXCEPT ![p] = "utime"]
                      /\ UNCHANGED result
  /\ UNCHANGED <<rec, dirs, nextTmp, env, ret, timeArg, fname, started>>

\* Lines 147-148: time.timetuple() and mktime() fail on a time that is absent
\* or that does not convert, utime() fails when the system refuses.
TimeBody(time, utimeOk) ==
  IF time = None THEN Raise("AttributeError")
  ELSE IF ~time.fits THEN Raise("OverflowError")
  ELSE IF ~utimeOk THEN Raise("OSError")
  ELSE Return(TRUE)

\* The timestamp step with its exceptions let through.
TimeTry_Propagate(time, utimeOk) == TimeBody(time, utimeOk)

\* Lines 146-150: every exception of the body is swallowed; the value tells
\* whether the times were set.
TimeTry(time, utimeOk) == Return(~TimeBody(time, utimeOk).raised)

\* run, lines 143-150.
SetTime(p) ==
  /\ pc[p] = "utime"
  /\ \E utimeOk \in BOOLEAN :
     LET time == timeArg[p]
         tmp == Components(fname[p].v)
         reached == time # None /\ time.fits
         out == TimeTry(time, utimeOk)
     IN  /\ reached \/ utimeOk
         /\ steps' = [steps EXCEPT ![p] =
              @ \o (IF time # None THEN <<Sys("mktime", time.fits)>> ELSE <<>>)
                \o (IF reached THEN <<Sys("utime", utimeOk)>> ELSE <<>>)]
         /\ files' = IF reached /\ utimeOk
                     THEN [files EXCEPT ![tmp].times = "scheduled"]
                     ELSE files
         /\ IF out.raised
            THEN Finish(p, out)
            ELSE /\ pc' = [pc EXCEPT ![p] = "move"]
                 /\ UNCHANGED result
  /\ UNCHANGED <<rec, dirs, nextTmp, env, ret, timeArg, fname, started>>

\* Line 153: the destination string, spool_dir + basename(fname).
Destination(spool_dir, name) == spool_dir \o basename(name)

\* shutil.move(src, dst): into dst when dst is a directory, to dst otherwise;
\* it needs the directory the file goes to.
MoveTarget(dst, src, d) ==
  IF Components(dst) \in d
  THEN Components(dst) \o <<src[Len(src)]>>
  ELSE Components(dst)

\* The move with its failure swallowed.
MoveTry_Swallow(moved) == Return(TRUE)

\* Lines 152-157: any failure of the move raises NoSpoolPermissionError.
MoveTry(moved) ==
  IF moved THEN Return(TRUE) ELSE Raise("NoSpoolPermissionError")

\* The move made right after the temporary file is written, before the
\* ownership and the timestamp steps.
Move_Early(p) ==
  /\ pc[p] = "chown"
  /\ \E permitted \in BOOLEAN :
     LET src == Components(fname[p].v)
         dst == MoveTarget(Destination(rec[p].spool_dir.v, fname[p].v), src, dirs)
         ok  == permitted /\ Parent(dst) \in dirs
     IN  /\ steps' = [steps EXCEPT ![p] = Append(@, Sys("move", ok))]
         /\ files' = IF ok
                     THEN (dst :> files[src])
                          @@ [x \in DOMAIN files \ {src} |-> files[x]]
                     ELSE files
         /\ Finish(p, MoveTry(ok))
  /\ UNCHANGED <<rec, dirs, nextTmp, env, ret, timeArg, fname, started>>

\* The move tried again after it failed, until it succeeds.
Move_Retry(p) ==
  /\ pc[p] = "move"
  /\ \E permitted \in BOOLEAN :
     LET src == Components(fname[p].v)
         dst == MoveTarget(Destination(rec[p].spool_dir.v, fname[p].v), src, dirs)
         ok  == permitted /\ Parent(dst) \in dirs
     IN  /\ steps' = [steps EXCEPT ![p] = Append(@, Sys("move", ok))]
         /\ files' = IF ok
                     THEN (dst :> files[src])
                          @@ [x \in DOMAIN files \ {src} |-> files[x]]
                     ELSE files
         /\ IF ok THEN Finish(p, MoveTry(ok)) ELSE UNCHANGED <<pc, result>>
  /\ UNCHANGED <<rec, dirs, nextTmp, env, ret, timeArg, fname, started>>

\* run, lines 152-157.
Move(p) ==
  /\ pc[p] = "move"
  /\ \E permitted \in BOOLEAN :
     LET src == Components(fname[p].v)
         dst == MoveTarget(Destination(rec[p].spool_dir.v, fname[p].v), src, dirs)
         ok  == permitted /\ Parent(dst) \in dirs
     IN  /\ steps' = [steps EXCEPT ![p] = Append(@, Sys("move", ok))]
         /\ files' = IF ok
                     THEN (dst :> files[src])
                          @@ [x \in DOMAIN files \ {src} |-> files[x]]
                     ELSE files
         /\ Finish(p, MoveTry(ok))
  /\ UNCHANGED <<rec, dirs, nextTmp, env, ret, timeArg, fname, started>>

\* ------------------------------------------------------ other programs
\* The spool directory is removed (it must be empty), or made again.
RemoveSpoolDir ==
  /\ env < MaxEnv
  /\ SpoolPath \in dirs
  /\ \A x \in DOMAIN files : Parent(x) # SpoolPath
  /\ dirs' = dirs \ {SpoolPath}
  /\ env' = env + 1
  /\ UNCHANGED <<rec, pc, files, nextTmp, ret, timeArg, fname, steps, result, started>>

CreateSpoolDir ==
  /\ env < MaxEnv
  /\ SpoolPath \notin dirs
  /\ dirs' = dirs \cup {SpoolPath}
  /\ env' = env + 1
  /\ UNCHANGED <<rec, pc, files, nextTmp, ret, timeArg, fname, steps, result, started>>

\* --------------------------------------------------------- specifications
Pipeline(p) ==
  \/ WriteOpen(p)
  \/ WriteBody(p)
  \/ SetOwner(p)
  \/ SetTime(p)
  \/ Move(p)

\* One submission, its record and the time argument drawn from every case.
Next ==
  \/ \E call \in CallObjs, action \in ActionObjs, archive \in ArchiveArgs,
        user \in UserArgs, spool_dir \in SpoolArgs :
        Construct(1, call, action, archive, user, spool_dir)
  \/ DoIsValid(1)
  \/ DoBuildfile(1)
  \/ DoContents(1)
  \/ DoSpool(1)
  \/ \E time \in TimeArgs : Run(1, time)
  \/ Pipeline(1)
  \/ RemoveSpoolDir
  \/ CreateSpoolDir

Spec == Init /\ [][Next]_vars

\* Two submissions at once into the same spool directory: valid records of
\* different contents, no owner and no schedule, the steps of the two runs
\* interleaved in every order.
NextConc ==
  \/ \E p \in Procs, n \in 0..MaxLines, archive \in {None, Bool(TRUE)},
        spool_dir \in {None, Str(DEFAULT_SPOOL_DIR \o <<SEP>>)} :
        Construct(p, [isCall |-> TRUE, valid |-> TRUE, lines |-> TargetLines(n)],
                  [isAction |-> TRUE, valid |-> TRUE, lines |-> ActionLines(1)],
                  archive, None, spool_dir)
  \/ \E p \in Procs : Run(p, None)
  \/ \E p \in Procs : Pipeline(p)
  \/ RemoveSpoolDir
  \/ CreateSpoolDir

SpecConc == Init /\ [][NextConc]_vars

\* ------------------------------------------------- what the claims speak of
\* The record's target, or its action, fails its own validation.
TargetFails(r) == ~r.call.isCall \/ ~CallIsValid(r.call)
ActionFails(r) == ~r.action.isAction \/ ~ActionIsValid(r.action)

\* A valid record, as the specification defines it, in the directories d.
ValidRecord(r, d) ==
  /\ ~TargetFails(r)
  /\ ~ActionFails(r)
  /\ Components(r.spool_dir.v) \in d

\* The last call on p's record was op.
LastCall(p, op) == ret[p] # None /\ ret[p].op = op

\* The directive text of p's record: target lines, action lines, archive line.
Rendered(p) ==
  JoinNL(rec[p].call.lines \o rec[p].action.lines
         \o (IF rec[p].archive = Bool(TRUE) THEN <<ArchiveLine>> ELSE <<>>))

Ended(p)     == pc[p] = "done"
Succeeded(p) == Ended(p) /\ ~result[p].raised
Failed(p, k) == Ended(p) /\ result[p].raised /\ result[p].kind = k
Did(p, op)      == \E i \in 1..Len(steps[p]) : steps[p][i].op = op
DidFail(p, op)  == \E i \in 1..Len(steps[p]) : steps[p][i] = Sys(op, FALSE)

\* Where the claims say p's file ends: in the spool directory, under the
\* temporary file's own name.
SpooledPath(p) == Components(rec[p].spool_dir.v) \o <<basename(fname[p].v)[1]>>

\* The files in p's spool directory.
InSpoolDir(p) == { x \in DOMAIN files : Parent(x) = Components(rec[p].spool_dir.v) }

\* ------------------------------------------------------------ the claims
\* C1 (as claimed): whenever the target or the action of a record fails its
\* own validation, buildfile raises ValidationError and writes no file.
C1_ValidationGating ==
  \A p \in Procs :
    (LastCall(p, "buildfile") /\ (TargetFails(rec[p]) \/ ActionFails(rec[p])))
    => /\ ret[p].out.raised
       /\ ret[p].out.kind = "ValidationError"
       /\ files = ret[p].files

\* C1: an Action that fails its own validation, in an otherwise valid record:
\* buildfile has returned the lines.
C1_InvalidActionBuilt ==
  \E p \in Procs :
    /\ LastCall(p, "buildfile")
    /\ rec[p].action.isAction /\ ~ActionIsValid(rec[p].action)
    /\ ~ret[p].out.raised

\* C2 (as claimed): is_valid returns true exactly when the target validates,
\* the action validates and the spool directory exists when it is called.
C2_ValidIff ==
  \A p \in Procs :
    LastCall(p, "is_valid")
    => (ret[p].out.value = ValidRecord(rec[p], ret[p].dirs))

\* C3: on a valid record buildfile returns the target's lines, then the
\* action's lines, then "Archive: yes" when archive is true, and nothing else.
C3_SerializationOrder ==
  \A p \in Procs :
    (LastCall(p, "buildfile") /\ ValidRecord(rec[p], ret[p].dirs))
    => /\ ~ret[p].out.raised
       /\ LET cf == ret[p].out.value
              T == rec[p].call.lines
              A == rec[p].action.lines
              k == IF rec[p].archive = Bool(TRUE) THEN 1 ELSE 0
          IN  /\ Len(cf) = Len(T) + Len(A) + k
              /\ \A i \in 1..Len(T) : cf[i] = T[i]
              /\ \A i \in 1..Len(A) : cf[Len(T) + i] = A[i]
              /\ k = 1 => cf[Len(cf)] = "Archive: yes"

\* C3: a valid record with no target line, the most action lines and
\* archive set has been built.
C3_Witness ==
  \E p \in Procs :
    /\ LastCall(p, "buildfile") /\ ValidRecord(rec[p], ret[p].dirs)
    /\ rec[p].call.lines = <<>>
    /\ Len(rec[p].action.lines) = MaxLines
    /\ rec[p].archive = Bool(TRUE)
    /\ ~ret[p].out.raised

UnknownUser(p) ==
  rec[p] # None /\ Truthy(rec[p].user) /\ rec[p].user.v \notin Accounts

\* Where line 153 sends p's file.
FinalPath(p) == Components(Destination(rec[p].spool_dir.v, fname[p].v))

\* Nothing of p's run is in the spool directory, or where the move puts it.
NothingSpooled(p) ==
  /\ InSpoolDir(p) = {}
  /\ fname[p] # None => FinalPath(p) \notin DOMAIN files

TimeFailed(p) == DidFail(p, "mktime") \/ DidFail(p, "utime")

C9_RefusedRunNoEffects ==
  \A p \in Procs :
    (started[p] # None /\ ~is_valid(rec[p], started[p].dirs))
    => /\ Failed(p, "ValidationError")
       /\ steps[p] = <<>>
       /\ files = started[p].files

StepRank(op) ==
  CASE op = "mkstemp"  -> 1
    [] op = "write"    -> 2
    [] op = "getpwnam" -> 3
    [] op = "chown"    -> 4
    [] op = "mktime"   -> 5
    [] op = "utime"    -> 6
    [] op = "move"     -> 7

\* Where p's file is now: at its temporary path, or where the move put it.
FileOf(p) ==
  IF Components(fname[p].v) \in DOMAIN files
  THEN Components(fname[p].v)
  ELSE FinalPath(p)

C12_IsValidPure ==
  [][\A p \in Procs :
       DoIsValid(p)
       => /\ rec' = rec
          /\ dirs' = dirs
          /\ files' = files
          /\ ret'[p].out = Return(is_valid(rec'[p], dirs'))]_vars

\* C12: is_valid has returned False on a record whose spool directory is
\* missing, and the directory is still missing.
C12_Witness ==
  \E p \in Procs :
    /\ LastCall(p, "is_valid")
    /\ ~TargetFails(rec[p]) /\ ~ActionFails(rec[p])
    /\ ret[p].out.value = FALSE
    /\ ret[p].dirs = dirs
    /\ Components(rec[p].spool_dir.v) \notin dirs

\* The lines T, then A, then the archive line of a record with archive true.
DirectiveLines(r) ==
  r.call.lines \o r.action.lines
  \o (IF r.archive = Bool(TRUE) THEN <<"Archive: yes">> ELSE <<>>)

RECURSIVE JoinedLines(_)
\* Lines with one newline between each two, none before the first and none
\* after the last.
JoinedLines(lines) ==
  IF Len(lines) = 0 THEN ""
  ELSE IF Len(lines) = 1 THEN lines[1]
  ELSE JoinedLines(SubSeq(lines, 1, Len(lines) - 1)) \o "\n" \o lines[Len(lines)]

\* C13 (as claimed): contents of a valid record is its directive lines joined
\* by single newlines, with none added at the end; on an invalid record it
\* raises ValidationError.
C13_ContentsJoined ==
  \A p \in Procs :
    LastCall(p, "contents")
    => IF ValidRecord(rec[p], ret[p].dirs)
       THEN /\ ~ret[p].out.raised
            /\ ret[p].out.value = JoinedLines(DirectiveLines(rec[p]))
       ELSE /\ ret[p].out.raised
            /\ ret[p].out.kind = "ValidationError"

\* C13, with the records is_valid refuses as the invalid ones: the same.
C13_ContentsOfAccepted ==
  \A p \in Procs :
    LastCall(p, "contents")
    => IF is_valid(rec[p], ret[p].dirs)
       THEN /\ ~ret[p].out.raised
            /\ ret[p].out.value = JoinedLines(DirectiveLines(rec[p]))
       ELSE /\ ret[p].out.raised
            /\ ret[p].out.kind = "ValidationError"

\* The error kinds of the ownership step and of the timestamp step's body.
OwnerKinds == {"NoUserError", "NoUserPermissionError"}
TimeKinds  == {"AttributeError", "OverflowError", "OSError"}

Attempts(p, op) == Cardinality({ i \in 1..Len(steps[p]) : steps[p][i].op = op })

\* The steps whose failure ends the run.
MandatoryOps == {"mkstemp", "write", "getpwnam", "chown", "move"}

DefaultPathText == <<"/", "var", "/", "spool", "/", "asterisk", "/", "outgoing">>

\* C18: a record made with spool_dir None or empty has the default path as
\* its spool_dir; the spool_dir of a record is a string that is not empty,
\* and it stays what the constructor made it; so whenever is_valid accepts a
\* record, the one with the default included, its spool directory exists.
C18_DefaultSpoolDir ==
  /\ [](\A p \in Procs :
          rec[p] # None
          => /\ rec[p].spool_dir.t = "str"
             /\ rec[p].spool_dir.v # <<>>
             /\ (LastCall(p, "__init__") /\ ret[p].out.value \in {None, Str(<<>>)})
                => rec[p].spool_dir = Str(DefaultPathText)
             /\ is_valid(rec[p], dirs) => Components(rec[p].spool_dir.v) \in dirs)
  /\ [][\A p \in Procs :
          rec[p] # None => rec'[p].spool_dir = rec[p].spool_dir]_vars

\* C18: is_valid has refused a record that was made without a spool_dir,
\* because the default directory was missing.
C18_Witness ==
  \E p \in Procs :
    /\ LastCall(p, "is_valid")
    /\ rec[p].spool_dir = Str(DefaultPathText)
    /\ ~TargetFails(rec[p]) /\ ~ActionFails(rec[p])
    /\ Components(DefaultPathText) \notin ret[p].dirs
    /\ ret[p].out.value = FALSE

\* The system calls of a run other than those of the timestamp step.
IsLowStep(s) == s.op \notin {"mktime", "utime"}
LowSteps(p) == SelectSeq(steps[p], IsLowStep)

\* The calls of the ownership step of a record, by whether chown succeeds.
OwnerCalls(r, chownOk) ==
  IF ~Truthy(r.user) THEN <<>>
  ELSE IF r.user.v \notin Accounts THEN <<Sys("getpwnam", FALSE)>>
  ELSE <<Sys("getpwnam", TRUE), Sys("chown", chownOk)>>

\* The sequences of calls, the timestamp step's left out, that an ended run
\* of a record can have made, worked out from the record and the answers of
\* the system alone: validation refused it, or it wrote its file and the
\* ownership step failed, or it went on to the move.
TimeFreePaths(r) ==
  { <<>>, <<Sys("mkstemp", TRUE)>> }
  \cup (IF OwnerCalls(r, FALSE) = <<>> THEN {}
        ELSE { <<Sys("mkstemp", TRUE), Sys("write", TRUE)>> \o OwnerCalls(r, FALSE) })
  \cup { <<Sys("mkstemp", TRUE), Sys("write", TRUE)>> \o OwnerCalls(r, TRUE)
           \o <<Sys("move", ok)>> :
           ok \in { b \in BOOLEAN : \A i \in 1..Len(OwnerCalls(r, TRUE)) :
                                       OwnerCalls(r, TRUE)[i].ok } }

\* What run gives after a sequence of calls, the timestamp step's left out.
TimeFreeOutcome(low) ==
  IF \A i \in 1..Len(low) : low[i].op # "write" THEN Raise("ValidationError")
  ELSE IF \E i \in 1..Len(low) : low[i].op \in {"getpwnam", "chown"} /\ ~low[i].ok
       THEN Raise("NoUserError")
  ELSE IF \E i \in 1..Len(low) : low[i].op = "move" /\ ~low[i].ok
       THEN Raise("NoSpoolPermissionError")
  ELSE Return(TRUE)

====
